---- MODULE Spec2Model ----
(***************************************************************************)
(* A model of the notebooks of this repository as state machines: every   *)
(* code cell is one action, executed top to bottom ("run all"), and an    *)
(* exception raised by a cell stops the run.                             *)
(*                                                                       *)
(* A behaviour of Spec is one run of one notebook:                       *)
(*   L4/geometric-operations.ipynb: read -> CRS check -> overlay ->      *)
(*       save -> dissolve -> select                                      *)
(*   the projections notebook: read -> backup and reproject -> save ->   *)
(*       CRS formats -> WKT and back to EPSG -> re-define the CRS        *)
(*   L4/geometric-operations.ipynb, "Simplifying geometries" (a part of  *)
(*       its own, with its own import and file): read -> simplify        *)
(*                                                                       *)
(* The notebooks only sequence calls of geopandas / pandas / pyproj (the *)
(* versions named in the projections notebook: geopandas 0.8.1, pyproj   *)
(* 2.6.1).  Each call is modelled by what that call does to the data.    *)
(*                                                                       *)
(* Geometry is one-dimensional: a polygon is a closed interval <<lo,hi>> *)
(* with integer end points (its "ring" of two vertices), a multi-polygon *)
(* a sequence of disjoint intervals in ascending order, and area is      *)
(* length.  Set-theoretic overlay, union and touching boundaries behave  *)
(* in one dimension as they do in two.                                   *)
(***************************************************************************)
EXTENDS Integers, Sequences, FiniteSets, TLC

\* ------------------------------------------------------------- bounds
\* Coordinates of the input polygons range over 0..MaxCoord.
MaxCoord == 3
\* The grid layer has 1..MaxGrid features.
MaxGrid == 2
\* The layer of the projections notebook has 1..MaxFeatures features.
MaxFeatures == 2
\* The numeric tolerance of a coordinate after a round trip, in units of the
\* coordinates.
RoundOff == 0
\* The line of the river has 2..MaxVertices vertices, vertex i at x = i and
\* at a height y in 0..MaxY; simplify is called with a tolerance in
\* 0..MaxTolerance.
MaxVertices == 4
MaxY == 2
MaxTolerance == 2
\* The layer of the municipalities has 1..MaxMunicipalities features, and the
\* table of the health districts names the districts 2..(1 + MaxDistricts).
MaxMunicipalities == 3
MaxDistricts == 2
\* The conversion of the codes is checked for the codes 0..MaxCode.
MaxCode == 120

\* ---------------------------------------------------- program constants
EPSG3035 == 3035
EPSG3067 == 3067
EPSG4326 == 4326
\* The Mercator projection based on the SIRGAS datum (SR-ORG:7868), which has
\* no EPSG code.
SRORG7868 == 7868
\* to_epsg()'s default min_confidence, and the one the notebook passes.
DefaultConfidence == 70
LowConfidence == 25
\* The travel time (minutes) the notebook selects after the aggregation.
SelectedTime == 15
\* Names are numbered in alphabetical order; "Ahvenanmaa" is the first of the
\* names of the health districts.
Ahvenanmaa == 1

\* Python's None / pandas' NaN where a number is expected: the absence of a
\* value (no attribute value, CRS or EPSG code is negative).
None == -1
\* The name of an index that has none (a RangeIndex).
NoName == "None"

\* The values of overlay()'s parameter `how`.
Hows == {"intersection", "union", "symmetric_difference", "difference", "identity"}

\* ------------------------------------------------------------ helpers
Range(s) == {s[i] : i \in DOMAIN s}
Min(S) == CHOOSE x \in S : \A y \in S : x <= y
Max(S) == CHOOSE x \in S : \A y \in S : x >= y
IndexOf(s, e) == IF e \in Range(s) THEN Min({i \in DOMAIN s : s[i] = e}) ELSE 0

RECURSIVE SortAsc(_)
SortAsc(S) == IF S = {} THEN <<>> ELSE <<Min(S)>> \o SortAsc(S \ {Min(S)})

RECURSIVE Flatten(_)
Flatten(ss) == IF ss = <<>> THEN <<>> ELSE Head(ss) \o Flatten(Tail(ss))

RECURSIVE SumSeq(_)
SumSeq(s) == IF s = <<>> THEN 0 ELSE Head(s) + SumSeq(Tail(s))

\* ---------------------------------------------------------------- CRS
\* A pyproj CRS: the coordinate reference system it is (its EPSG code), and
\* what identifying its description against the EPSG registry yields: the
\* candidate codes with the confidence (0..100) of each match, best first.  A
\* complete description matches its own code with confidence 100; an
\* incomplete one (a .prj file that lacks details) matches with less.
Match(code, confidence) == [code |-> code, confidence |-> confidence]
CRS(epsg, matches) == [epsg |-> epsg, matches |-> matches]

\* CRS.from_epsg(code)
from_epsg(code) == CRS(code, <<Match(code, 100)>>)

\* No CRS.
NoCRS == CRS(None, <<>>)

\* A to_epsg that takes the best candidate whatever its confidence.
to_epsg_IgnoresThreshold(crs, min_confidence) ==
    IF Len(crs.matches) = 0 THEN None ELSE crs.matches[1].code

\* A to_epsg that takes the candidate that meets the threshold most narrowly.
to_epsg_LastMeeting(crs, min_confidence) ==
    LET ok == SelectSeq(crs.matches, LAMBDA m : m.confidence >= min_confidence)
    IN IF Len(ok) = 0 THEN None ELSE ok[Len(ok)].code

\* CRS.to_epsg(min_confidence): the code of the first candidate whose
\* confidence reaches min_confidence, None when there is none.
to_epsg(crs, min_confidence) ==
    LET ok == SelectSeq(crs.matches, LAMBDA m : m.confidence >= min_confidence)
    IN IF Len(ok) = 0 THEN None ELSE ok[1].code

\* A to_wkt that leaves out what identifies the CRS.
to_wkt_NoAuthority(crs) == [wkt |-> <<crs.epsg, <<>>>>]

\* CRS.to_wkt(): the whole description of the CRS, as text.
to_wkt(crs) == [wkt |-> <<crs.epsg, crs.matches>>]

\* CRS.to_proj4(): the parameters of the projection, as text; what identifies
\* the CRS (authority code, names, axis order) is not part of a PROJ string.
to_proj4(crs) == [proj4 |-> crs.epsg]

\* CRS(value), CRS.from_user_input(value): the CRS a WKT text or a PROJ string
\* describes, or the CRS itself.  A PROJ string is an incomplete description:
\* it matches the code of its projection with a low confidence.
from_user_input(value) ==
    IF "wkt" \in DOMAIN value THEN CRS(value.wkt[1], value.wkt[2])
    ELSE IF "proj4" \in DOMAIN value
         THEN CRS(value.proj4, <<Match(value.proj4, LowConfidence)>>)
    ELSE value

\* A transform to the hub system that leaves the coordinate as it is.
ToWGS84_Identity(epsg, x) == x

\* The coordinate of a point in the hub system (WGS84), and back.
ToWGS84(epsg, x) ==
    CASE epsg = EPSG3035 -> (x - 1) \div 2
      [] epsg = EPSG3067 -> (x - 2) \div 3
      [] OTHER -> x

FromWGS84(epsg, x) ==
    CASE epsg = EPSG3035 -> 2 * x + 1
      [] epsg = EPSG3067 -> 3 * x + 2
      [] OTHER -> x

\* The forward transform of the pair source -> target, applied to one vertex.
Transform(source, target, x) ==
    IF source = target THEN x ELSE FromWGS84(target, ToWGS84(source, x))

\* ----------------------------------------------------------- geometry
\* A geometry: its variant, its parts (each a sequence of vertices), and the
\* CRS its coordinates are expressed in.
Variant(parts) ==
    IF Len(parts) = 0 THEN "Empty"
    ELSE IF \E i \in DOMAIN parts : parts[i][1] = parts[i][2] THEN "Point"
    ELSE IF Len(parts) = 1 THEN "Polygon" ELSE "MultiPolygon"

Geom(parts, crs) == [type |-> Variant(parts), parts |-> parts, crs |-> crs]

IsEmpty(g) == Len(g.parts) = 0

Area(g) == SumSeq([i \in DOMAIN g.parts |-> g.parts[i][2] - g.parts[i][1]])

\* The unit cells a sequence of parts covers.
Cells(parts) == UNION {parts[i][1] .. (parts[i][2] - 1) : i \in DOMAIN parts}

\* The maximal runs of a set of unit cells, ascending: adjacent cells merge.
RECURSIVE Runs(_)
Runs(S) ==
    IF S = {} THEN <<>>
    ELSE LET lo == Min(S)
             hi == Min({h \in (lo + 1) .. (Max(S) + 1) : h \notin S})
         IN <<(<<lo, hi>>)>> \o Runs({x \in S : x > hi})

\* Bounding boxes meet (closed): the candidate pairs of the spatial index.
BBoxIntersects(g1, g2) ==
    /\ ~IsEmpty(g1) /\ ~IsEmpty(g2)
    /\ g1.parts[1][1] <= g2.parts[Len(g2.parts)][2]
    /\ g2.parts[1][1] <= g1.parts[Len(g1.parts)][2]

\* The CRS of coordinates computed from two geometries: none describes them
\* when the two differ.
JoinCRS(c1, c2) == IF c1 = c2 THEN c1 ELSE NoCRS

\* shapely's intersection of closed regions: the overlap, and the points at
\* which the two only touch (degenerate parts lo = hi).
GeomIntersection(g1, g2) ==
    LET meets == {m \in {<<Max({p[1], q[1]}), Min({p[2], q[2]})>> :
                            p \in Range(g1.parts), q \in Range(g2.parts)} :
                     m[1] <= m[2]}
        order == SortAsc({m[1] : m \in meets})
    IN Geom([i \in DOMAIN order |-> CHOOSE m \in meets : m[1] = order[i]],
            JoinCRS(g1.crs, g2.crs))

\* A buffer(0) that keeps what has no area.
Buffer0_Keeps(g) == g

\* buffer(0): what has no area vanishes.
Buffer0(g) ==
    Geom(SelectSeq(g.parts, LAMBDA p : p[1] < p[2]), g.crs)

GeomDifference(g1, g2) ==
    Geom(Runs(Cells(g1.parts) \ Cells(g2.parts)), JoinCRS(g1.crs, g2.crs))

\* unary_union of a non-empty sequence of geometries.
UnaryUnion(gs) ==
    Geom(Runs(UNION {Cells(gs[i].parts) : i \in DOMAIN gs}),
         IF \A i \in DOMAIN gs : gs[i].crs = gs[1].crs THEN gs[1].crs ELSE NoCRS)

\* ----------------------------------------------------------- simplify
\* A shapely LineString: its vertices <<x, y>> in order, and the CRS its
\* coordinates are expressed in.
LineString(coords, crs) == [type |-> "LineString", coords |-> coords, crs |-> crs]

Sq(n) == n * n

\* The square of the distance of the points a and b.
Dist2(a, b) == Sq(b[1] - a[1]) + Sq(b[2] - a[2])

\* The square of the distance of the point p to the segment ab (a # b), times
\* the square of the length of ab: distances stay integers.
SegDist2(p, a, b) ==
    LET len2 == Dist2(a, b)
        dot == (p[1] - a[1]) * (b[1] - a[1]) + (p[2] - a[2]) * (b[2] - a[2])
        cross == (p[1] - a[1]) * (b[2] - a[2]) - (p[2] - a[2]) * (b[1] - a[1])
    IN IF dot <= 0 THEN Dist2(p, a) * len2
       ELSE IF dot >= len2 THEN Dist2(p, b) * len2
       ELSE Sq(cross)

\* A simplification that flattens a section when its farthest vertex is
\* farther than the tolerance, and splits it when it is not.
RECURSIVE Kept_DropsFar(_, _, _, _)
Kept_DropsFar(pts, i, j, tolerance) ==
    IF j <= i + 1 THEN {i, j}
    ELSE LET d(k) == SegDist2(pts[k], pts[i], pts[j])
             far == Min({k \in (i + 1) .. (j - 1) :
                            \A l \in (i + 1) .. (j - 1) : d(l) <= d(k)})
         IN IF d(far) > Sq(tolerance) * Dist2(pts[i], pts[j]) THEN {i, j}
            ELSE Kept_DropsFar(pts, i, far, tolerance)
                    \cup Kept_DropsFar(pts, far, j, tolerance)

\* The vertices the simplification keeps of the section i..j of a line
\* (Douglas-Peucker): the section is flattened to its two ends when the vertex
\* farthest from the segment between its ends is within the tolerance, and
\* otherwise split at that vertex.
RECURSIVE Kept(_, _, _, _)
Kept(pts, i, j, tolerance) ==
    IF j <= i + 1 THEN {i, j}
    ELSE LET d(k) == SegDist2(pts[k], pts[i], pts[j])
             far == Min({k \in (i + 1) .. (j - 1) :
                            \A l \in (i + 1) .. (j - 1) : d(l) <= d(k)})
         IN IF d(far) <= Sq(tolerance) * Dist2(pts[i], pts[j]) THEN {i, j}
            ELSE Kept(pts, i, far, tolerance) \cup Kept(pts, far, j, tolerance)

\* A simplify that keeps the two ends of the line only.
simplify_EndsOnly(g, tolerance) ==
    LineString(<<g.coords[1], g.coords[Len(g.coords)]>>, g.crs)

\* A simplify whose result has no CRS.
simplify_DropsCRS(g, tolerance) ==
    LET keep == SortAsc(Kept(g.coords, 1, Len(g.coords), tolerance))
    IN LineString([n \in DOMAIN keep |-> g.coords[keep[n]]], NoCRS)

\* geometry.simplify(tolerance): the kept vertices, in their order.
simplify(g, tolerance) ==
    LET keep == SortAsc(Kept(g.coords, 1, Len(g.coords), tolerance))
    IN LineString([n \in DOMAIN keep |-> g.coords[keep[n]]], g.crs)

\* -------------------------------------------------- feature collections
\* A GeoDataFrame: its CRS, the name of its index (NoName: a RangeIndex), its
\* attribute columns in order, and its rows.  A row has its index value, its
\* geometry, and its attribute values in the order of the columns.
Frame(crs, index, columns, feats) ==
    [crs |-> crs, index |-> index, columns |-> columns, feats |-> feats]

Row(id, geometry, values) == [id |-> id, geometry |-> geometry, values |-> values]

Nulls(columns) == [i \in DOMAIN columns |-> None]

\* reset_index(drop=True): the rows are numbered 0, 1, ...
Renumber(feats) ==
    [i \in DOMAIN feats |-> Row(i - 1, feats[i].geometry, feats[i].values)]

\* GeoSeries.simplify(tolerance): every geometry of the layer, simplified.
GeoSeries_simplify(df, tolerance) ==
    [i \in DOMAIN df.feats |-> simplify(df.feats[i].geometry, tolerance)]

\* data['geom_gen'] = geoms; data.set_geometry('geom_gen'): the geometries
\* become the geometry of the layer, and the former geometry stays as the
\* ordinary column 'geometry'.
set_geometry(df, geoms) ==
    Frame(df.crs, df.index, df.columns \o <<"geometry">>,
          [i \in DOMAIN df.feats |->
              Row(df.feats[i].id, geoms[i],
                  df.feats[i].values \o <<df.feats[i].geometry>>)])

\* ------------------------------------------------------------- overlay
\* pandas' merge(..., suffixes=(s1, s2)): a column of one side whose name the
\* other side has too gets that side's suffix; no other column is renamed.
Suffixed(cols, other, sfx) ==
    [i \in DOMAIN cols |-> IF cols[i] \in Range(other) THEN cols[i] \o sfx ELSE cols[i]]

MergeColumns(c1, c2) == Suffixed(c1, c2, "_1") \o Suffixed(c2, c1, "_2")

\* The rows of the 'intersection': one per pair of features (first layer
\* ascending, then second layer) whose intersection, after buffer(0), is not
\* empty.
IntersectionRows(df1, df2) ==
    LET n == Len(df1.feats)
        m == Len(df2.feats)
        nei == [x \in 1 .. (n * m) |-> <<((x - 1) \div m) + 1, ((x - 1) % m) + 1>>]
        g1(pr) == df1.feats[pr[1]].geometry
        g2(pr) == df2.feats[pr[2]].geometry
        cand == SelectSeq(nei, LAMBDA pr : BBoxIntersects(g1(pr), g2(pr)))
        inter(pr) == Buffer0(GeomIntersection(g1(pr), g2(pr)))
        kept == SelectSeq(cand, LAMBDA pr : ~IsEmpty(inter(pr)))
    IN [k \in DOMAIN kept |->
           Row(k - 1, inter(kept[k]),
               df1.feats[kept[k][1]].values \o df2.feats[kept[k][2]].values)]

\* The rows of the 'difference': each feature of df1 minus every feature of
\* df2, dropped when nothing is left; the rows keep their index values.
DifferenceRows(df1, df2) ==
    LET others == [k \in DOMAIN df2.feats |-> df2.feats[k].geometry]
        cut(g) == IF Len(others) = 0 THEN g
                  ELSE Buffer0(GeomDifference(g, UnaryUnion(others)))
        left == SelectSeq(df1.feats, LAMBDA f : ~IsEmpty(cut(f.geometry)))
    IN [k \in DOMAIN left |-> Row(left[k].id, cut(left[k].geometry), left[k].values)]

\* A symmetric difference that leaves out what is left of df2.
SymDiffRows_FirstOnly(df1, df2) ==
    LET d1 == DifferenceRows(df1, df2)
    IN [k \in DOMAIN d1 |-> Row(0, d1[k].geometry, d1[k].values \o Nulls(df2.columns))]

\* The rows of the 'symmetric_difference': what is left of df1, with no
\* values for df2's columns, then what is left of df2.
SymDiffRows(df1, df2) ==
    LET d1 == DifferenceRows(df1, df2)
        d2 == DifferenceRows(df2, df1)
    IN [k \in DOMAIN d1 |-> Row(0, d1[k].geometry, d1[k].values \o Nulls(df2.columns))]
       \o [k \in DOMAIN d2 |-> Row(0, d2[k].geometry, Nulls(df1.columns) \o d2[k].values)]

\* geopandas.overlay(df1, df2, how).  The result has the CRS of df1; the two
\* CRS are not compared.
overlay(df1, df2, how) ==
    LET both == MergeColumns(df1.columns, df2.columns)
        inter == IntersectionRows(df1, df2)
        d1 == DifferenceRows(df1, df2)
    IN CASE how = "intersection" ->
              Frame(df1.crs, NoName, both, inter)
         [] how = "union" ->
              Frame(df1.crs, NoName, both, Renumber(inter \o SymDiffRows(df1, df2)))
         [] how = "symmetric_difference" ->
              Frame(df1.crs, NoName, both, Renumber(SymDiffRows(df1, df2)))
         [] how = "identity" ->
              Frame(df1.crs, NoName, both,
                    Renumber(inter \o [k \in DOMAIN d1 |->
                        Row(0, d1[k].geometry, d1[k].values \o Nulls(df2.columns))]))
         [] how = "difference" ->
              Frame(df1.crs, df1.index, df1.columns, d1)

\* ------------------------------------------------------------ reproject
\* A to_crs that transforms the coordinates and leaves the layer's CRS as it was.
to_crs_KeepsCRS(df, target) ==
    Frame(df.crs, df.index, df.columns,
          [i \in DOMAIN df.feats |->
              LET g == df.feats[i].geometry
              IN Row(df.feats[i].id,
                     Geom([p \in DOMAIN g.parts |->
                              [v \in DOMAIN g.parts[p] |->
                                  Transform(df.crs.epsg, target.epsg, g.parts[p][v])]],
                          IF g.crs = df.crs THEN target ELSE NoCRS),
                     df.feats[i].values)])

\* A to_crs that transforms only the first part of every geometry.
to_crs_FirstPartOnly(df, target) ==
    Frame(target, df.index, df.columns,
          [i \in DOMAIN df.feats |->
              LET g == df.feats[i].geometry
              IN Row(df.feats[i].id,
                     Geom([p \in {1} |->
                              [v \in DOMAIN g.parts[p] |->
                                  Transform(df.crs.epsg, target.epsg, g.parts[p][v])]],
                          IF g.crs = df.crs THEN target ELSE NoCRS),
                     df.feats[i].values)])

\* GeoDataFrame.to_crs(crs): a new layer in the target CRS; every vertex of
\* every geometry goes through the transform from the layer's CRS to the
\* target, and nothing else changes.
to_crs(df, target) ==
    Frame(target, df.index, df.columns,
          [i \in DOMAIN df.feats |->
              LET g == df.feats[i].geometry
              IN Row(df.feats[i].id,
                     Geom([p \in DOMAIN g.parts |->
                              [v \in DOMAIN g.parts[p] |->
                                  Transform(df.crs.epsg, target.epsg, g.parts[p][v])]],
                          IF g.crs = df.crs THEN target ELSE NoCRS),
                     df.feats[i].values)])

\* ------------------------------------------------------------ dissolve
\* A groupby that knows columns only, not the index.
KeyOf_ColumnOnly(df, by, f) ==
    IF by \in Range(df.columns) THEN f.values[IndexOf(df.columns, by)] ELSE None

\* The value a row is grouped by: groupby(by) takes a column of that name,
\* or else the index of that name.
KeyOf(df, by, f) ==
    IF by \in Range(df.columns) THEN f.values[IndexOf(df.columns, by)]
    ELSE IF df.index = by THEN f.id ELSE None

CanGroupBy(df, by) == (by \in Range(df.columns)) # (df.index = by)

\* aggfunc="first": the first value of the column in the group that is not null.
First(grp, j) ==
    LET nn == SelectSeq(grp, LAMBDA f : f.values[j] # None)
    IN IF Len(nn) = 0 THEN None ELSE nn[1].values[j]

\* A dissolve that merges nothing: one row for every row that has a key.
dissolve_PerRow(df, by) ==
    LET keyed == SelectSeq(df.feats, LAMBDA f : KeyOf(df, by, f) # None)
        rest == SelectSeq([i \in DOMAIN df.columns |-> i], LAMBDA i : df.columns[i] # by)
    IN Frame(df.crs, by, [i \in DOMAIN rest |-> df.columns[rest[i]]],
             [n \in DOMAIN keyed |->
                 Row(KeyOf(df, by, keyed[n]), keyed[n].geometry,
                     [i \in DOMAIN rest |-> keyed[n].values[rest[i]]])])

\* A dissolve that keeps the key as a column (as_index=False).
dissolve_AsColumn(df, by) ==
    LET keys == SortAsc({KeyOf(df, by, f) : f \in Range(df.feats)} \ {None})
        group(k) == SelectSeq(df.feats, LAMBDA f : KeyOf(df, by, f) = k)
        geoms(k) == [i \in DOMAIN group(k) |-> group(k)[i].geometry]
    IN Frame(df.crs, NoName, df.columns,
             [n \in DOMAIN keys |->
                 Row(n - 1, UnaryUnion(geoms(keys[n])),
                     [i \in DOMAIN df.columns |-> First(group(keys[n]), i)])])

\* A dissolve whose groups come in the order in which their keys first occur
\* (groupby(sort=False)).
dissolve_FirstOccurrence(df, by) ==
    LET keyed == {i \in DOMAIN df.feats : KeyOf(df, by, df.feats[i]) # None}
        firsts == SortAsc({i \in keyed : \A j \in keyed :
                      KeyOf(df, by, df.feats[j]) = KeyOf(df, by, df.feats[i]) => i <= j})
        keys == [n \in DOMAIN firsts |-> KeyOf(df, by, df.feats[firsts[n]])]
        rest == SelectSeq([i \in DOMAIN df.columns |-> i], LAMBDA i : df.columns[i] # by)
        group(k) == SelectSeq(df.feats, LAMBDA f : KeyOf(df, by, f) = k)
        geoms(k) == [i \in DOMAIN group(k) |-> group(k)[i].geometry]
    IN Frame(df.crs, by, [i \in DOMAIN rest |-> df.columns[rest[i]]],
             [n \in DOMAIN keys |->
                 Row(keys[n], UnaryUnion(geoms(keys[n])),
                     [i \in DOMAIN rest |-> First(group(keys[n]), rest[i])])])

\* GeoDataFrame.dissolve(by): the rows are grouped by their key (rows without
\* a key are left out), the groups come in ascending order of the key, each
\* group's geometries are merged, the key becomes the index, and every other
\* column keeps its first value.
dissolve(df, by) ==
    LET keys == SortAsc({KeyOf(df, by, f) : f \in Range(df.feats)} \ {None})
        rest == SelectSeq([i \in DOMAIN df.columns |-> i], LAMBDA i : df.columns[i] # by)
        group(k) == SelectSeq(df.feats, LAMBDA f : KeyOf(df, by, f) = k)
        geoms(k) == [i \in DOMAIN group(k) |-> group(k)[i].geometry]
    IN Frame(df.crs, by, [i \in DOMAIN rest |-> df.columns[rest[i]]],
             [n \in DOMAIN keys |->
                 Row(keys[n], UnaryUnion(geoms(keys[n])),
                     [i \in DOMAIN rest |-> First(group(keys[n]), rest[i])])])

\* dissolved.loc[key]: the row whose index value is key.
HasKey(df, key) == \E i \in DOMAIN df.feats : df.feats[i].id = key
Loc(df, key) == df.feats[Min({i \in DOMAIN df.feats : df.feats[i].id = key})]

\* ------------------------------------------------- numbers and strings
\* A float64 with one decimal place is the number of its tenths (20.0 is
\* 200); NaN is None.
Float(n) == 10 * n

\* A character string of decimal digits is the number its digits spell after
\* a leading 1: "020" is 1020, "20" is 120, "5" is 15 and "" is 1.  Two
\* strings are the same number exactly when they are the same string.
RECURSIVE Pow10(_)
Pow10(n) == IF n = 0 THEN 1 ELSE 10 * Pow10(n - 1)

RECURSIVE NumDigits(_)
NumDigits(n) == IF n < 10 THEN 1 ELSE 1 + NumDigits(n \div 10)

\* len(x)
StrLen(x) == NumDigits(x) - 1

\* x + y
Concat(x, y) == x * Pow10(StrLen(y)) + (y - Pow10(StrLen(y)))

\* The string "0".
Zero == 10

\* astype(int): the float, truncated.
astype_int(x) == x \div 10

\* astype('str'): the decimal digits of the integer.
astype_str(n) == Pow10(NumDigits(n)) + n

\* int(x) of a string of digits.
ParseInt(x) == x - Pow10(StrLen(x))

\* lambda x: "00" + x if len(x) == 1 else x
AddZeros1(x) == IF StrLen(x) = 1 THEN Concat(Concat(Zero, Zero), x) ELSE x

\* A padding that leaves a code of two digits as it is.
AddZeros2_Skipped(x) == x

\* lambda x: "0" + x if len(x) == 2 else x
AddZeros2(x) == IF StrLen(x) = 2 THEN Concat(Zero, x) ELSE x

\* The three statements of the cell, applied to one code:
\* astype(int).astype('str'), then the two paddings.
NormaliseCode(x) == AddZeros2(AddZeros1(astype_str(astype_int(x))))

\* ---------------------------------------------------------------- tables
\* A pandas DataFrame: its columns in order, and its rows; a row has its index
\* label and its values in the order of the columns.
Table(columns, rows) == [columns |-> columns, rows |-> rows]
TRow(id, values) == [id |-> id, values |-> values]

\* The values of the columns named in `names`, in that order.
Pick(columns, values, names) ==
    [i \in DOMAIN names |-> values[IndexOf(columns, names[i])]]

\* rename(columns={old: new})
Renamed(columns, old, new) ==
    [i \in DOMAIN columns |-> IF columns[i] = old THEN new ELSE columns[i]]

\* data.dropna(): the rows without a missing value, with their labels.
dropna(df) ==
    Table(df.columns,
          SelectSeq(df.rows, LAMBDA r : \A j \in DOMAIN r.values : r.values[j] # None))

\* data.at[label, column], when the label exists.
HasLabel(df, label) == \E i \in DOMAIN df.rows : df.rows[i].id = label
at(df, label, column) ==
    LET i == Min({k \in DOMAIN df.rows : df.rows[k].id = label})
    IN df.rows[i].values[IndexOf(df.columns, column)]

\* A merge that keeps the rows with a match only (how="inner").
merge_Inner(left, right, on) ==
    LET k1 == IndexOf(left.columns, on)
        k2 == IndexOf(right.columns, on)
        others == SelectSeq([j \in DOMAIN right.columns |-> j], LAMBDA j : j # k2)
        hit(f) == SelectSeq(right.rows, LAMBDA r : r.values[k2] = f.values[k1])
        joined(f) == [m \in DOMAIN hit(f) |->
                         Row(0, f.geometry,
                             f.values \o [j \in DOMAIN others |-> hit(f)[m].values[others[j]]])]
    IN Frame(left.crs, NoName,
             left.columns \o [j \in DOMAIN others |-> right.columns[others[j]]],
             Renumber(Flatten([i \in DOMAIN left.feats |-> joined(left.feats[i])])))

\* geodata.merge(data, on=key, how="left"): for every row of the layer, in
\* order, one row for each row of the table with the same key, and one row
\* with missing values when the table has none.  The result is numbered anew.
merge(left, right, on) ==
    LET k1 == IndexOf(left.columns, on)
        k2 == IndexOf(right.columns, on)
        others == SelectSeq([j \in DOMAIN right.columns |-> j], LAMBDA j : j # k2)
        hit(f) == SelectSeq(right.rows, LAMBDA r : r.values[k2] = f.values[k1])
        joined(f) ==
            IF Len(hit(f)) = 0
            THEN <<Row(0, f.geometry, f.values \o [j \in DOMAIN others |-> None])>>
            ELSE [m \in DOMAIN hit(f) |->
                     Row(0, f.geometry,
                         f.values \o [j \in DOMAIN others |-> hit(f)[m].values[others[j]]])]
    IN Frame(left.crs, NoName,
             left.columns \o [j \in DOMAIN others |-> right.columns[others[j]]],
             Renumber(Flatten([i \in DOMAIN left.feats |-> joined(left.feats[i])])))

\* df[column].isnull(): the positions of the rows with a missing value.
isnull(df, column) ==
    {i \in DOMAIN df.feats : df.feats[i].values[IndexOf(df.columns, column)] = None}

\* df.loc[df[column].isnull(), column] = value
FillNull(df, column, value) ==
    LET j == IndexOf(df.columns, column)
    IN Frame(df.crs, df.index, df.columns,
             [i \in DOMAIN df.feats |->
                 IF i \in isnull(df, column)
                 THEN Row(df.feats[i].id, df.feats[i].geometry,
                          [df.feats[i].values EXCEPT ![j] = value])
                 ELSE df.feats[i]])

\* df[column].value_counts(): the number of rows of each value, missing
\* values left out.
value_counts(df, column) ==
    LET j == IndexOf(df.columns, column)
        vals == {df.feats[i].values[j] : i \in DOMAIN df.feats} \ {None}
    IN [v \in vals |-> Cardinality({i \in DOMAIN df.feats : df.feats[i].values[j] = v})]

\* districts.reset_index(inplace=True): the index becomes the first column,
\* and the rows are numbered.
reset_index(df) ==
    Frame(df.crs, NoName, <<df.index>> \o df.columns,
          [i \in DOMAIN df.feats |->
              Row(i - 1, df.feats[i].geometry, <<df.feats[i].id>> \o df.feats[i].values)])

\* df[[names..., 'geometry']]: the named columns, in the order given.
Columns(df, names) ==
    Frame(df.crs, df.index, names,
          [i \in DOMAIN df.feats |->
              Row(df.feats[i].id, df.feats[i].geometry,
                  Pick(df.columns, df.feats[i].values, names))])

\* ------------------------------------------------------------ the files
Intervals == {iv \in (0 .. MaxCoord) \X (0 .. MaxCoord) : iv[1] < iv[2]}

FileCRS == {from_epsg(EPSG3067), from_epsg(EPSG4326)}
TravelTimes == {SelectedTime, 20}

\* The attribute columns of the two layers: without a common name, with a
\* common name, and with a common name beside a column that already ends
\* in a suffix.
ColumnCases == { <<(<<"car_r_t">>), (<<"NAMEFIN">>)>>,
                 <<(<<"car_r_t", "name">>), (<<"name">>)>>,
                 <<(<<"car_r_t", "name", "name_2">>), (<<"name">>)>> }

\* The cells of the grid are small: at most two units long.
GridCells == {iv \in Intervals : iv[2] - iv[1] <= 2}

\* The rows of a grid layer of n polygons, each with its travel time car_r_t.
GridRows(n, cols) ==
    {[i \in 1 .. n |-> Row(i - 1, Geom(<<ivs[i]>>, NoCRS), <<ts[i]>> \o
                           [j \in 1 .. (Len(cols) - 1) |-> 100 * j + i])] :
        ivs \in [1 .. n -> GridCells], ts \in [1 .. n -> TravelTimes]}

\* The parts of a shape, given where it is on the globe (in the hub system),
\* in the coordinates of a CRS.
Located(parts, crs) ==
    [p \in DOMAIN parts |->
        [v \in DOMAIN parts[p] |-> FromWGS84(crs.epsg, parts[p][v])]]

\* The coordinates of a file are in the file's CRS.
InCRS(feats, crs) ==
    [i \in DOMAIN feats |->
        Row(feats[i].id, Geom(Located(feats[i].geometry.parts, crs), crs),
            feats[i].values)]

\* The grid layers of 1..max polygons.
GridFiles(cols, max) ==
    {Frame(crs, NoName, cols, InCRS(rows, crs)) :
        crs \in FileCRS, rows \in UNION {GridRows(n, cols) : n \in 1 .. max}}

\* The border layer: one polygon.
BorderFiles(cols) ==
    {Frame(crs, NoName, cols, <<Row(0, Geom(Located(<<iv>>, crs), crs), <<91>>)>>) :
        crs \in FileCRS, iv \in Intervals}

\* The layer of the projections notebook (the borders of Europe): polygons
\* and multi-polygons with one attribute, in WGS84 or in ETRS-LAEA, described
\* completely or incompletely.
Shapes == {<<iv>> : iv \in Intervals} \cup
          {ab \in Intervals \X Intervals : ab[1][2] < ab[2][1]}

EuropeCRS == { from_epsg(EPSG4326),
               CRS(EPSG4326, <<Match(EPSG4326, 50)>>),
               CRS(EPSG4326, <<Match(EPSG4326, 20)>>),
               CRS(EPSG4326, <<Match(EPSG4326, 60), Match(EPSG3035, 30)>>),
               CRS(EPSG3035, <<Match(EPSG3035, 50)>>) }

EuropeLayers(n) ==
    {Frame(crs, NoName, <<"TZID">>,
           [i \in 1 .. n |-> Row(i - 1, Geom(Located(shp[i], crs), crs), <<300 + i>>)]) :
        crs \in EuropeCRS, shp \in [1 .. n -> Shapes]}

EuropeFiles == UNION {EuropeLayers(n) : n \in 1 .. MaxFeatures}

\* The layer of the river: one line in a metric CRS.
RiverLines ==
    UNION {{[i \in 1 .. n |-> <<i, ys[i]>>] : ys \in [1 .. n -> 0 .. MaxY]} :
              n \in 2 .. MaxVertices}

AmazonCRS == CRS(SRORG7868, <<>>)

AmazonFiles ==
    {Frame(AmazonCRS, NoName, <<"name">>,
           <<Row(0, LineString(pts, AmazonCRS), <<1>>)>>) : pts \in RiverLines}

Tolerances == 0 .. MaxTolerance

\* The municipalities, numbered in the alphabetical order of their names:
\* Akaa has the code 020, Alajarvi 005, and the others codes of three digits.
KuntaCode(i) == CASE i = 1 -> 20 [] i = 2 -> 5 [] OTHER -> 97 + i

\* The WFS layer of the first n municipalities, in the order of their codes:
\* the code as a character string of three digits, the year, and the name.
\* Municipalities that follow each other in the layer are neighbours.
KuntaLayer(n) ==
    LET order == SortAsc({KuntaCode(i) : i \in 1 .. n})
        crs == from_epsg(EPSG3067)
    IN Frame(crs, NoName, <<"kunta", "vuosi", "name">>,
             [p \in 1 .. n |->
                 Row(p - 1, Geom(Located(<<(<<p - 1, p>>)>>, crs), crs),
                     <<Pow10(3) + order[p], 2020,
                       CHOOSE i \in 1 .. n : KuntaCode(i) = order[p]>>)])

\* The names of the health districts the table has.
Districts == 2 .. (1 + MaxDistricts)

\* The sheet of the health districts: the row after the header is empty, and
\* the municipalities follow in the alphabetical order of their names, the
\* code as a floating point number.  district[i] is the health district of
\* municipality i, None for a municipality the sheet lacks (those of Aland).
Sheet(n, district) ==
    LET listed == SelectSeq([i \in 1 .. n |-> i], LAMBDA i : district[i] # None)
    IN Table(<<"kunta-\nkoodi", "kunta", "sairaanhoitopiiri">>,
             <<TRow(0, <<None, None, None>>)>> \o
             [k \in DOMAIN listed |->
                 TRow(k, <<Float(KuntaCode(listed[k])), listed[k], district[listed[k]]>>)])

\* The sheet lists one municipality at least.
Sheets(n) ==
    {Sheet(n, d) : d \in {d \in [1 .. n -> Districts \cup {None}] :
                              \E i \in 1 .. n : d[i] # None}}

\* -------------------------------------------------------------- state
VARIABLES
    files,          \* the data directory: path -> the layer stored there
    pc,             \* the next cell of the notebook that runs
    err,            \* the exception that stopped the run, or NoError
    grid,           \* the travel time grid
    hel,            \* the border of Helsinki
    how,            \* the `how` the overlay was called with ("": not called)
    intersection,   \* the result of the overlay
    dissolved,      \* the result of the aggregation
    sel_15min,      \* the selected row of the aggregation
    heap,           \* the layers of the projections notebook: object -> value
    data,           \* the object `data` is bound to (0: none)
    data_wgs84,     \* the object `data_wgs84` is bound to (0: none)
    crs_epsg,       \* <<the value of crs_epsg>>, <<>> when not bound
    note_epsg,      \* <<to_epsg(), to_epsg(min_confidence=25)>> of the note
    crs_object,     \* <<the value of crs_object>>, <<>> when not bound
    crs_proj4,      \* <<the value of crs_proj4>>
    crs_wkt,        \* <<the value of crs_wkt>>
    epsg,           \* <<the EPSG code retrieved from the WKT text>>
    amazon,         \* the layer of the river
    tolerance,      \* the tolerance simplify was called with (None: not called)
    geodata,        \* the layer of the municipalities
    hdata,          \* the health districts notebook's `data`: the table of the sheet
    number,         \* <<the value of number>>, <<>> when not bound
    districts       \* the layer of the health districts

vars == <<files, pc, err, grid, hel, how, intersection, dissolved, sel_15min,
          heap, data, data_wgs84, crs_epsg, note_epsg,
          crs_object, crs_proj4, crs_wkt, epsg, amazon, tolerance,
          geodata, hdata, number, districts>>

l4vars == <<grid, hel, how, intersection, dissolved, sel_15min>>
fmtvars == <<crs_object, crs_proj4, crs_wkt, epsg>>
projvars == <<heap, data, data_wgs84, crs_epsg, note_epsg, fmtvars>>
amazonvars == <<amazon, tolerance>>
healthvars == <<geodata, hdata, number, districts>>

\* A name that is not bound yet, a file that is not written yet.
Undefined == [undefined |-> TRUE]
IsFrame(x) == "crs" \in DOMAIN x

NoError == "NoError"

\* A run of L4/geometric-operations.ipynb: grids of up to MaxGrid cells with
\* the travel time as their only attribute, and grids of one cell with
\* further attributes.
InitL4 ==
    /\ \E cc \in ColumnCases :
       \E g \in GridFiles(cc[1], IF Len(cc[1]) = 1 THEN MaxGrid ELSE 1),
          b \in BorderFiles(cc[2]) :
           files = [grid_fp |-> g, border_fp |-> b, outfp |-> Undefined]
    /\ pc = "read"

\* A run of the projections notebook.
InitProj ==
    /\ \E f \in EuropeFiles : files = [fp |-> f, outfp |-> Undefined]
    /\ pc = "p_read"

\* A run of the part "Simplifying geometries".
InitAmazon ==
    /\ \E f \in AmazonFiles : files = [fp |-> f]
    /\ pc = "a_read"

\* A run of the health districts notebook.
InitHealth ==
    /\ \E n \in 1 .. MaxMunicipalities : \E x \in Sheets(n) :
          files = [url |-> KuntaLayer(n), xls |-> x, fp1 |-> Undefined, fp2 |-> Undefined]
    /\ pc = "h_read"

Init ==
    /\ InitL4 \/ InitProj \/ InitAmazon \/ InitHealth
    /\ err = NoError
    /\ grid = Undefined
    /\ hel = Undefined
    /\ how = ""
    /\ intersection = Undefined
    /\ dissolved = Undefined
    /\ sel_15min = Undefined
    /\ heap = <<>>
    /\ data = 0
    /\ data_wgs84 = 0
    /\ crs_epsg = <<>>
    /\ note_epsg = <<>>
    /\ crs_object = <<>>
    /\ crs_proj4 = <<>>
    /\ crs_wkt = <<>>
    /\ epsg = <<>>
    /\ amazon = Undefined
    /\ tolerance = None
    /\ geodata = Undefined
    /\ hdata = Undefined
    /\ number = <<>>
    /\ districts = Undefined

\* ---------------------------------------------------------- the cells
\* grid = gpd.read_file(grid_fp); hel = gpd.read_file(border_fp)
ReadFiles ==
    /\ pc = "read"
    /\ grid' = files.grid_fp
    /\ hel' = files.border_fp
    /\ pc' = "check"
    /\ UNCHANGED <<files, err, how, intersection, dissolved, sel_15min>>
    /\ UNCHANGED projvars
    /\ UNCHANGED amazonvars
    /\ UNCHANGED healthvars

\* A notebook without the assertion: the run goes on to the overlay.
CheckCRS_Skipped ==
    /\ pc = "check"
    /\ pc' = "overlay" /\ err' = err
    /\ UNCHANGED <<files, grid, hel, how, intersection, dissolved, sel_15min>>
    /\ UNCHANGED projvars
    /\ UNCHANGED amazonvars
    /\ UNCHANGED healthvars

\* Ensure that the CRS matches, if not raise an AssertionError.
CheckCRS ==
    /\ pc = "check"
    /\ IF hel.crs = grid.crs
       THEN pc' = "overlay" /\ err' = err
       ELSE pc' = "failed" /\ err' = "AssertionError"
    /\ UNCHANGED <<files, grid, hel, how, intersection, dissolved, sel_15min>>
    /\ UNCHANGED projvars
    /\ UNCHANGED amazonvars
    /\ UNCHANGED healthvars

\* intersection = gpd.overlay(grid, hel, how=...).  The notebook passes
\* 'intersection'; the cell is taken with every value of `how` it lists.
Overlay ==
    /\ pc = "overlay"
    /\ \E h \in Hows : how' = h /\ intersection' = overlay(grid, hel, h)
    /\ pc' = "save"
    /\ UNCHANGED <<files, err, grid, hel, dissolved, sel_15min>>
    /\ UNCHANGED projvars
    /\ UNCHANGED amazonvars
    /\ UNCHANGED healthvars

\* A save that writes nothing.
Save_Skipped ==
    /\ pc = "save"
    /\ pc' = "dissolve"
    /\ UNCHANGED <<files, err, grid, hel, how, intersection, dissolved, sel_15min>>
    /\ UNCHANGED projvars
    /\ UNCHANGED amazonvars
    /\ UNCHANGED healthvars

\* intersection.to_file(outfp, driver="GeoJSON")
Save ==
    /\ pc = "save"
    /\ files' = [files EXCEPT !.outfp = intersection]
    /\ pc' = "dissolve"
    /\ UNCHANGED <<err, grid, hel, how, intersection, dissolved, sel_15min>>
    /\ UNCHANGED projvars
    /\ UNCHANGED amazonvars
    /\ UNCHANGED healthvars

\* A dissolve that also replaces the layer it is called on.
Dissolve_InPlace ==
    /\ pc = "dissolve"
    /\ dissolved' = dissolve(intersection, "car_r_t")
    /\ intersection' = dissolved'
    /\ pc' = "select" /\ err' = err
    /\ UNCHANGED <<files, grid, hel, how, sel_15min>>
    /\ UNCHANGED projvars
    /\ UNCHANGED amazonvars
    /\ UNCHANGED healthvars

\* dissolved = intersection.dissolve(by="car_r_t")
Dissolve ==
    /\ pc = "dissolve"
    /\ IF CanGroupBy(intersection, "car_r_t")
       THEN dissolved' = dissolve(intersection, "car_r_t")
            /\ pc' = "select" /\ err' = err
       ELSE dissolved' = dissolved /\ pc' = "failed" /\ err' = "KeyError"
    /\ UNCHANGED <<files, grid, hel, how, intersection, sel_15min>>
    /\ UNCHANGED projvars
    /\ UNCHANGED amazonvars
    /\ UNCHANGED healthvars

\* sel_15min = dissolved.loc[15]
Select ==
    /\ pc = "select"
    /\ IF HasKey(dissolved, SelectedTime)
       THEN sel_15min' = Loc(dissolved, SelectedTime) /\ pc' = "done" /\ err' = err
       ELSE sel_15min' = sel_15min /\ pc' = "failed" /\ err' = "KeyError"
    /\ UNCHANGED <<files, grid, hel, how, intersection, dissolved>>
    /\ UNCHANGED projvars
    /\ UNCHANGED amazonvars
    /\ UNCHANGED healthvars

\* ------------------------------------- the cells of the projections notebook
\* data = gpd.read_file(fp)
ReadFile ==
    /\ pc = "p_read"
    /\ heap' = <<files.fp>>
    /\ data' = 1
    /\ pc' = "p_reproject"
    /\ UNCHANGED <<files, err, data_wgs84, crs_epsg, note_epsg>>
    /\ UNCHANGED fmtvars
    /\ UNCHANGED l4vars
    /\ UNCHANGED amazonvars
    /\ UNCHANGED healthvars

\* A reprojection in place (to_crs(epsg=3035, inplace=True)).
Reproject_InPlace ==
    /\ pc = "p_reproject"
    /\ LET copied == Append(heap, heap[data])
       IN /\ data_wgs84' = Len(copied)
          /\ heap' = [copied EXCEPT ![data] = to_crs(heap[data], from_epsg(EPSG3035))]
          /\ data' = data
    /\ pc' = "p_save"
    /\ UNCHANGED <<files, err, crs_epsg, note_epsg>>
    /\ UNCHANGED fmtvars
    /\ UNCHANGED l4vars
    /\ UNCHANGED amazonvars
    /\ UNCHANGED healthvars

\* data_wgs84 = data.copy(); data = data.to_crs(epsg=3035)
Reproject ==
    /\ pc = "p_reproject"
    /\ LET copied == Append(heap, heap[data])
       IN /\ data_wgs84' = Len(copied)
          /\ heap' = Append(copied, to_crs(heap[data], from_epsg(EPSG3035)))
          /\ data' = Len(copied) + 1
    /\ pc' = "p_save"
    /\ UNCHANGED <<files, err, crs_epsg, note_epsg>>
    /\ UNCHANGED fmtvars
    /\ UNCHANGED l4vars
    /\ UNCHANGED amazonvars
    /\ UNCHANGED healthvars

\* data.to_file(outfp)
SaveProjected ==
    /\ pc = "p_save"
    /\ files' = [files EXCEPT !.outfp = heap[data]]
    /\ pc' = "p_formats"
    /\ UNCHANGED <<err, heap, data, data_wgs84, crs_epsg, note_epsg>>
    /\ UNCHANGED fmtvars
    /\ UNCHANGED l4vars
    /\ UNCHANGED amazonvars
    /\ UNCHANGED healthvars

\* crs_object = CRS(data_wgs84.crs);
\* crs_epsg = CRS(data_wgs84.crs).to_epsg(min_confidence=25);
\* crs_proj4 = CRS(data_wgs84.crs).to_proj4(); crs_wkt = CRS(data_wgs84.crs).to_wkt()
CRSFormats ==
    /\ pc = "p_formats"
    /\ crs_object' = <<from_user_input(heap[data_wgs84].crs)>>
    /\ crs_epsg' = <<to_epsg(from_user_input(heap[data_wgs84].crs), LowConfidence)>>
    /\ crs_proj4' = <<to_proj4(from_user_input(heap[data_wgs84].crs))>>
    /\ crs_wkt' = <<to_wkt(from_user_input(heap[data_wgs84].crs))>>
    /\ pc' = "p_init_crs"
    /\ UNCHANGED <<files, err, heap, data, data_wgs84, note_epsg, epsg>>
    /\ UNCHANGED l4vars
    /\ UNCHANGED amazonvars
    /\ UNCHANGED healthvars

\* crs_object = CRS.from_epsg(3035)
InitCRS ==
    /\ pc = "p_init_crs"
    /\ crs_object' = <<from_epsg(EPSG3035)>>
    /\ pc' = "p_to_wkt"
    /\ UNCHANGED <<files, err, heap, data, data_wgs84, crs_epsg, note_epsg>>
    /\ UNCHANGED <<crs_proj4, crs_wkt, epsg>>
    /\ UNCHANGED l4vars
    /\ UNCHANGED amazonvars
    /\ UNCHANGED healthvars

\* crs_wkt = crs_object.to_wkt()
ToWkt ==
    /\ pc = "p_to_wkt"
    /\ crs_wkt' = <<to_wkt(crs_object[1])>>
    /\ pc' = "p_from_wkt"
    /\ UNCHANGED <<files, err, heap, data, data_wgs84, crs_epsg, note_epsg>>
    /\ UNCHANGED <<crs_object, crs_proj4, epsg>>
    /\ UNCHANGED l4vars
    /\ UNCHANGED amazonvars
    /\ UNCHANGED healthvars

\* epsg = CRS(crs_wkt).to_epsg()
EpsgFromWkt ==
    /\ pc = "p_from_wkt"
    /\ epsg' = <<to_epsg(from_user_input(crs_wkt[1]), DefaultConfidence)>>
    /\ pc' = "p_note"
    /\ UNCHANGED <<files, err, heap, data, data_wgs84, crs_epsg, note_epsg>>
    /\ UNCHANGED <<crs_object, crs_proj4, crs_wkt>>
    /\ UNCHANGED l4vars
    /\ UNCHANGED amazonvars
    /\ UNCHANGED healthvars

\* The note's two calls on the CRS of the original data:
\* CRS(data.crs).to_epsg() and CRS(data.crs).to_epsg(min_confidence=25)
EpsgNote ==
    /\ pc = "p_note"
    /\ note_epsg' = <<to_epsg(heap[data_wgs84].crs, DefaultConfidence),
                      to_epsg(heap[data_wgs84].crs, LowConfidence)>>
    /\ pc' = "p_redefine"
    /\ UNCHANGED <<files, err, heap, data, data_wgs84, crs_epsg>>
    /\ UNCHANGED fmtvars
    /\ UNCHANGED l4vars
    /\ UNCHANGED amazonvars
    /\ UNCHANGED healthvars

\* data.crs = CRS.from_epsg(3035).to_wkt(): the CRS of the layer is set, in
\* place, and no coordinate changes.
RedefineCRS ==
    /\ pc = "p_redefine"
    /\ heap' = [heap EXCEPT ![data].crs = from_epsg(EPSG3035)]
    /\ pc' = "done"
    /\ UNCHANGED <<files, err, data, data_wgs84, crs_epsg, note_epsg>>
    /\ UNCHANGED fmtvars
    /\ UNCHANGED l4vars
    /\ UNCHANGED amazonvars
    /\ UNCHANGED healthvars

\* ------------------------------------- the cells: simplifying geometries
\* data = gpd.read_file(fp)
ReadAmazon ==
    /\ pc = "a_read"
    /\ amazon' = files.fp
    /\ pc' = "a_simplify"
    /\ UNCHANGED <<files, err, tolerance>>
    /\ UNCHANGED l4vars
    /\ UNCHANGED projvars
    /\ UNCHANGED healthvars

\* data['geom_gen'] = data.simplify(tolerance=...);
\* data = data.set_geometry('geom_gen').  The notebook passes 20 000 (metres).
Simplify ==
    /\ pc = "a_simplify"
    /\ \E t \in Tolerances :
          /\ tolerance' = t
          /\ amazon' = set_geometry(amazon, GeoSeries_simplify(amazon, t))
    /\ pc' = "done"
    /\ UNCHANGED <<files, err>>
    /\ UNCHANGED l4vars
    /\ UNCHANGED projvars
    /\ UNCHANGED healthvars

\* --------------------------------- the cells: the health districts notebook
\* data["code"]: the values of the column, row by row.
CodeColumn(df) ==
    [i \in DOMAIN df.rows |-> df.rows[i].values[IndexOf(df.columns, "code")]]

\* data["code"] = codes
SetCode(df, codes) ==
    Table(df.columns,
          [i \in DOMAIN df.rows |->
              TRow(df.rows[i].id,
                   [df.rows[i].values EXCEPT ![IndexOf(df.columns, "code")] = codes[i]])])

\* geodata = gpd.read_file(url)
ReadMunicipalities ==
    /\ pc = "h_read"
    /\ geodata' = files.url
    /\ pc' = "h_select"
    /\ UNCHANGED <<files, err, hdata, number, districts>>
    /\ UNCHANGED l4vars
    /\ UNCHANGED projvars
    /\ UNCHANGED amazonvars

\* geodata.rename(columns={'kunta':'code'}, inplace=True)
\* geodata = geodata[['code','name', 'geometry']]
SelectColumns ==
    /\ pc = "h_select"
    /\ geodata' = Columns(Frame(geodata.crs, geodata.index,
                                Renamed(geodata.columns, "kunta", "code"),
                                geodata.feats),
                          <<"code", "name">>)
    /\ pc' = "h_excel"
    /\ UNCHANGED <<files, err, hdata, number, districts>>
    /\ UNCHANGED l4vars
    /\ UNCHANGED projvars
    /\ UNCHANGED amazonvars

\* data = pd.read_excel(..., header=3)
ReadExcel ==
    /\ pc = "h_excel"
    /\ hdata' = files.xls
    /\ pc' = "h_dropna"
    /\ UNCHANGED <<files, err, geodata, number, districts>>
    /\ UNCHANGED l4vars
    /\ UNCHANGED projvars
    /\ UNCHANGED amazonvars

\* data.dropna(inplace=True)
DropNa ==
    /\ pc = "h_dropna"
    /\ hdata' = dropna(hdata)
    /\ pc' = "h_rename"
    /\ UNCHANGED <<files, err, geodata, number, districts>>
    /\ UNCHANGED l4vars
    /\ UNCHANGED projvars
    /\ UNCHANGED amazonvars

\* data.rename(columns={"kunta-\nkoodi":"code",
\*                      'sairaanhoitopiiri':'healthCareDistrict'}, inplace=True)
\* data = data[['code','healthCareDistrict']]
RenameColumns ==
    /\ pc = "h_rename"
    /\ LET cols == Renamed(Renamed(hdata.columns, "kunta-\nkoodi", "code"),
                           "sairaanhoitopiiri", "healthCareDistrict")
           keep == <<"code", "healthCareDistrict">>
       IN hdata' = Table(keep, [i \in DOMAIN hdata.rows |->
                                   TRow(hdata.rows[i].id,
                                        Pick(cols, hdata.rows[i].values, keep))])
    /\ pc' = "h_number"
    /\ UNCHANGED <<files, err, geodata, number, districts>>
    /\ UNCHANGED l4vars
    /\ UNCHANGED projvars
    /\ UNCHANGED amazonvars

\* number = data.at[1, "code"]
ExampleCode ==
    /\ pc = "h_number"
    /\ IF HasLabel(hdata, 1)
       THEN number' = <<at(hdata, 1, "code")>> /\ pc' = "h_codes" /\ err' = err
       ELSE number' = number /\ pc' = "failed" /\ err' = "KeyError"
    /\ UNCHANGED <<files, geodata, hdata, districts>>
    /\ UNCHANGED l4vars
    /\ UNCHANGED projvars
    /\ UNCHANGED amazonvars

\* data["code"] = data["code"].astype(int).astype('str')
\* data["code"] = data["code"].apply(lambda x: "00" + x if len(x)==1 else x)
\* data["code"] = data["code"].apply(lambda x: "0" + x if len(x)==2 else x)
NormaliseCodes ==
    /\ pc = "h_codes"
    /\ LET d1 == SetCode(hdata, [i \in DOMAIN hdata.rows |->
                                    astype_str(astype_int(CodeColumn(hdata)[i]))])
           d2 == SetCode(d1, [i \in DOMAIN d1.rows |-> AddZeros1(CodeColumn(d1)[i])])
       IN hdata' = SetCode(d2, [i \in DOMAIN d2.rows |-> AddZeros2(CodeColumn(d2)[i])])
    /\ pc' = "h_merge"
    /\ UNCHANGED <<files, err, geodata, number, districts>>
    /\ UNCHANGED l4vars
    /\ UNCHANGED projvars
    /\ UNCHANGED amazonvars

\* geodata = geodata.merge(data, on="code", how="left")
Merge ==
    /\ pc = "h_merge"
    /\ geodata' = merge(geodata, hdata, "code")
    /\ pc' = "h_aland"
    /\ UNCHANGED <<files, err, hdata, number, districts>>
    /\ UNCHANGED l4vars
    /\ UNCHANGED projvars
    /\ UNCHANGED amazonvars

\* geodata.loc[geodata["healthCareDistrict"].isnull(), "healthCareDistrict"]
\*     = "Ahvenanmaa"
UpdateAland ==
    /\ pc = "h_aland"
    /\ geodata' = FillNull(geodata, "healthCareDistrict", Ahvenanmaa)
    /\ pc' = "h_dissolve"
    /\ UNCHANGED <<files, err, hdata, number, districts>>
    /\ UNCHANGED l4vars
    /\ UNCHANGED projvars
    /\ UNCHANGED amazonvars

\* districts = geodata.dissolve(by='healthCareDistrict')
DissolveDistricts ==
    /\ pc = "h_dissolve"
    /\ IF CanGroupBy(geodata, "healthCareDistrict")
       THEN districts' = dissolve(geodata, "healthCareDistrict")
            /\ pc' = "h_reset" /\ err' = err
       ELSE districts' = districts /\ pc' = "failed" /\ err' = "KeyError"
    /\ UNCHANGED <<files, geodata, hdata, number>>
    /\ UNCHANGED l4vars
    /\ UNCHANGED projvars
    /\ UNCHANGED amazonvars

\* districts.reset_index(inplace=True)
\* districts = districts[["healthCareDistrict", "geometry"]]
ResetIndex ==
    /\ pc = "h_reset"
    /\ districts' = Columns(reset_index(districts), <<"healthCareDistrict">>)
    /\ pc' = "h_write"
    /\ UNCHANGED <<files, err, geodata, hdata, number>>
    /\ UNCHANGED l4vars
    /\ UNCHANGED projvars
    /\ UNCHANGED amazonvars

\* districts.to_file(fp1, driver='GeoJSON', encoding='utf-8')
WriteOriginal ==
    /\ pc = "h_write"
    /\ files' = [files EXCEPT !.fp1 = districts]
    /\ pc' = "h_reproject"
    /\ UNCHANGED <<err, geodata, hdata, number, districts>>
    /\ UNCHANGED l4vars
    /\ UNCHANGED projvars
    /\ UNCHANGED amazonvars

\* districts.to_crs(epsg=4326).to_file(fp2, driver='GeoJSON', encoding='utf-8')
ReprojectAndSave ==
    /\ pc = "h_reproject"
    /\ files' = [files EXCEPT !.fp2 = to_crs(districts, from_epsg(EPSG4326))]
    /\ pc' = "done"
    /\ UNCHANGED <<err, geodata, hdata, number, districts>>
    /\ UNCHANGED l4vars
    /\ UNCHANGED projvars
    /\ UNCHANGED amazonvars

Next ==
    \/ ReadFiles \/ CheckCRS \/ Overlay \/ Save \/ Dissolve \/ Select
    \/ ReadFile \/ Reproject \/ SaveProjected \/ CRSFormats
    \/ InitCRS \/ ToWkt \/ EpsgFromWkt \/ EpsgNote \/ RedefineCRS
    \/ ReadAmazon \/ Simplify
    \/ ReadMunicipalities \/ SelectColumns \/ ReadExcel \/ DropNa \/ RenameColumns
    \/ ExampleCode \/ NormaliseCodes \/ Merge \/ UpdateAland \/ DissolveDistricts
    \/ ResetIndex \/ WriteOriginal \/ ReprojectAndSave

Spec == Init /\ [][Next]_vars

\* ============================================================ the claims
IsRow(x) == "geometry" \in DOMAIN x

\* Every layer that exists: bound to a name, stored in a file, or on the heap.
Layers ==
    {x \in {grid, hel, intersection, dissolved, amazon, geodata, districts}
              \cup {files[k] : k \in DOMAIN files}
           \cup Range(heap) : IsFrame(x)}

\* The distinct values of the column (or index) `by` among the rows of df.
KeyValues(df, by) == {KeyOf(df, by, f) : f \in Range(df.feats)} \ {None}

\* A complete layer: every row has a value for every column and a polygonal
\* geometry, and no two rows have the same index value.
WellFormed(df) ==
    /\ \A i \in DOMAIN df.feats :
          /\ Len(df.feats[i].values) = Len(df.columns)
          /\ df.feats[i].geometry.type \in {"Polygon", "MultiPolygon"}
    /\ \A i, j \in DOMAIN df.feats : df.feats[i].id = df.feats[j].id => i = j

\* ----------------------------------------------------------------- C1
\* C1, as amended: when the two layers differ in CRS, the run stops at the CRS
\* check that precedes the overlay, with an AssertionError: the overlay is
\* never reached with differing CRS, no result layer, file or aggregation is
\* produced, and neither input is reprojected or changed.
C1_MismatchStopsAtCheck ==
    (IsFrame(grid) /\ IsFrame(hel)) =>
        /\ (pc = "overlay" \/ IsFrame(intersection)) => grid.crs = hel.crs
        /\ (grid.crs # hel.crs /\ pc # "check") =>
              /\ pc = "failed"
              /\ err = "AssertionError"
              /\ how = ""
              /\ intersection = Undefined
              /\ dissolved = Undefined
              /\ files.outfp = Undefined
              /\ grid = files.grid_fp
              /\ hel = files.border_fp

\* The run stopped at the check, the two layers differing in CRS.
C1_Witness ==
    /\ pc = "failed" /\ err = "AssertionError"
    /\ IsFrame(grid) /\ IsFrame(hel) /\ grid.crs # hel.crs

\* C1 as stated: with differing CRS it is overlay that fails, with
\* CRSMismatch, and for no mode returns a layer.
C1_Original ==
    (IsFrame(grid) /\ IsFrame(hel) /\ grid.crs # hel.crs /\ pc # "check") =>
        /\ err = "CRSMismatch"
        /\ \A h \in Hows : ~IsFrame(overlay(grid, hel, h))

\* ----------------------------------------------------------------- C2
\* C2: in every reachable state, whatever cells have run or failed, every
\* layer that exists has exactly one CRS, which is a CRS (not None), and the
\* coordinates of every one of its geometries are in that CRS.
C2_OneCRSPerCollection ==
    \A df \in Layers :
        /\ df.crs # NoCRS
        /\ df.crs.epsg \in {EPSG3035, EPSG3067, EPSG4326, SRORG7868}
        /\ \A i \in DOMAIN df.feats : df.feats[i].geometry.crs = df.crs

\* The whole L4 run is done, with an overlay and an aggregation that are not empty.
C2_Witness ==
    /\ pc = "done" /\ IsFrame(dissolved)
    /\ Len(intersection.feats) > 1 /\ Len(dissolved.feats) > 0

\* ----------------------------------------------------------------- C3
\* C3: after data_wgs84 = data.copy(); data = data.to_crs(epsg=3035) the
\* result is a new layer whose CRS is the target, the layer that was
\* reprojected is as it was read (CRS, coordinates, attributes), and the
\* backup copy still is the layer as read, in the source CRS.
C3_ReprojectIsPure ==
    data_wgs84 # 0 =>
        /\ heap[data].crs = from_epsg(EPSG3035)
        /\ data # 1 /\ data_wgs84 # 1 /\ data # data_wgs84
        /\ heap[1] = files.fp
        /\ heap[data_wgs84] = files.fp
        /\ heap[data_wgs84].crs = files.fp.crs

\* A layer was reprojected: the CRS and the coordinates of the result differ
\* from those of the backup copy.
C3_Witness ==
    /\ data_wgs84 # 0
    /\ heap[data].crs # heap[data_wgs84].crs
    /\ heap[data].feats[1].geometry.parts # heap[data_wgs84].feats[1].geometry.parts

C5_DissolveRowCount ==
    IsFrame(dissolved) =>
        /\ Len(dissolved.feats) = Cardinality(KeyValues(intersection, "car_r_t"))
        /\ Len(dissolved.feats) <= Len(intersection.feats)

\* The number of rows has decreased.
C5_Witness ==
    /\ IsFrame(dissolved)
    /\ Len(dissolved.feats) > 0
    /\ Len(dissolved.feats) < Len(intersection.feats)

\* ----------------------------------------------------------------- C6
\* C6: after the aggregation the key column car_r_t is no column of the
\* result any more, it is the result's index; every row is identified by one
\* distinct key value, and a row is selected by its key value: .loc[15] is the
\* row of key 15, and fails only when no row has that key.
C6_KeyBecomesIndex ==
    IsFrame(dissolved) =>
        /\ "car_r_t" \notin Range(dissolved.columns)
        /\ dissolved.index = "car_r_t"
        /\ {dissolved.feats[i].id : i \in DOMAIN dissolved.feats}
              = KeyValues(intersection, "car_r_t")
        /\ \A i, j \in DOMAIN dissolved.feats :
              dissolved.feats[i].id = dissolved.feats[j].id => i = j
        /\ \A i \in DOMAIN dissolved.feats :
              /\ HasKey(dissolved, dissolved.feats[i].id)
              /\ Loc(dissolved, dissolved.feats[i].id) = dissolved.feats[i]
        /\ IsRow(sel_15min) =>
              sel_15min.id = SelectedTime /\ sel_15min \in Range(dissolved.feats)
        /\ (pc = "failed" /\ err = "KeyError") =>
              SelectedTime \notin KeyValues(intersection, "car_r_t")

\* The row of 15 minutes was selected among two rows.
C6_Witness ==
    /\ IsRow(sel_15min) /\ sel_15min.id = SelectedTime
    /\ Len(dissolved.feats) = 2

\* ----------------------------------------------------------------- C7
\* Two geometries of the same variant, with as many parts, as many vertices
\* in every part, and the vertices in the same order.
SameShape(g, h) ==
    /\ g.type = h.type
    /\ Len(g.parts) = Len(h.parts)
    /\ \A p \in DOMAIN g.parts : Len(g.parts[p]) = Len(h.parts[p])
    /\ \A p, q \in DOMAIN g.parts : \A v, w \in 1..2 :
          (g.parts[p][v] < g.parts[q][w]) <=> (h.parts[p][v] < h.parts[q][w])

\* C7: the reprojected layer has the rows of the layer as read: as many, in
\* the same order, with the same index values, columns and attribute values,
\* and every geometry of the same variant with the same parts and vertices in
\* the same order.
C7_ReprojectKeepsShape ==
    data_wgs84 # 0 =>
        LET src == heap[data_wgs84]
            out == heap[data]
        IN  /\ Len(out.feats) = Len(src.feats)
            /\ out.columns = src.columns
            /\ out.index = src.index
            /\ \A i \in DOMAIN src.feats :
                  /\ out.feats[i].id = src.feats[i].id
                  /\ out.feats[i].values = src.feats[i].values
                  /\ SameShape(out.feats[i].geometry, src.feats[i].geometry)

\* Two features, the first a multipolygon, were reprojected to other coordinates.
C7_Witness ==
    /\ data_wgs84 # 0
    /\ Len(heap[data].feats) = 2
    /\ heap[data].feats[1].geometry.type = "MultiPolygon"
    /\ heap[data].feats[1].geometry.parts # heap[data_wgs84].feats[1].geometry.parts
    /\ heap[data].feats[2].values # heap[data].feats[1].values

\* ----------------------------------------------------------------- C8
\* The candidates of a CRS whose confidence meets the threshold.
Meeting(crs, min_confidence) ==
    {i \in DOMAIN crs.matches : crs.matches[i].confidence >= min_confidence}

\* r is the code of a candidate meeting the threshold that no other such
\* candidate precedes, or None when no candidate meets the threshold.
CodeOrNone(crs, min_confidence, r) ==
    /\ (r # None) <=> (Meeting(crs, min_confidence) # {})
    /\ r # None =>
          \E i \in Meeting(crs, min_confidence) :
              /\ crs.matches[i].code = r
              /\ \A j \in Meeting(crs, min_confidence) : i <= j

\* C8, as amended: the resolution of a CRS to an EPSG code returns the code
\* of the best candidate when a candidate meets the confidence threshold, and
\* otherwise it returns None and raises no error.
C8_CodeOrNone ==
    /\ crs_epsg # <<>> =>
          /\ CodeOrNone(heap[data_wgs84].crs, LowConfidence, crs_epsg[1])
          /\ err = NoError /\ pc # "failed"
    /\ note_epsg # <<>> =>
          /\ CodeOrNone(heap[data_wgs84].crs, DefaultConfidence, note_epsg[1])
          /\ CodeOrNone(heap[data_wgs84].crs, LowConfidence, note_epsg[2])
          /\ err = NoError /\ pc # "failed"

\* The case of the notebook: None at the default threshold, 3035 at 25 %.
C8_Witness ==
    /\ note_epsg = <<None, EPSG3035>>
    /\ crs_epsg # <<>>

\* C8 as stated: a resolution never returns None, and when no candidate
\* meets the threshold it fails with UnresolvedCRS.
C8_Original ==
    /\ \A r \in Range(crs_epsg) \cup Range(note_epsg) : r # None
    /\ (crs_epsg # <<>> /\ Meeting(heap[data_wgs84].crs, LowConfidence) = {}) =>
          err = "UnresolvedCRS"

\* ----------------------------------------------------------------- C9
\* What a grid cell and a border polygon have in common.
Overlap(fa, fb) == Cells(fa.geometry.parts) \cap Cells(fb.geometry.parts)

\* The pairs (grid cell, border polygon) that have something in common, in
\* the order of the grid and, for one cell, of the border.
OverlapPairs ==
    LET m == Len(hel.feats)
        nums == {(i - 1) * m + k : i \in DOMAIN grid.feats, k \in DOMAIN hel.feats}
        hit == {n \in nums :
                   Overlap(grid.feats[((n - 1) \div m) + 1],
                           hel.feats[((n - 1) % m) + 1]) # {}}
        seq == SortAsc(hit)
    IN  [n \in DOMAIN seq |-> <<((seq[n] - 1) \div m) + 1, ((seq[n] - 1) % m) + 1>>]

\* C9: overlay(grid, hel, how='intersection') has one row for each pair of a
\* grid cell and a border polygon that have something in common, whose
\* geometry is what they have in common and whose attributes are those of
\* both; a pair that has nothing in common (disjoint, or touching only in a
\* boundary) has no row.
C9_IntersectionPairs ==
    (IsFrame(intersection) /\ how = "intersection") =>
        LET pairs == OverlapPairs
        IN  /\ Len(intersection.feats) = Len(pairs)
            /\ \A n \in DOMAIN pairs :
                  LET fa == grid.feats[pairs[n][1]]
                      fb == hel.feats[pairs[n][2]]
                      row == intersection.feats[n]
                  IN  /\ Cells(row.geometry.parts) = Overlap(fa, fb)
                      /\ Area(row.geometry) > 0
                      /\ Len(row.values) = Len(fa.values) + Len(fb.values)
                      /\ SubSeq(row.values, 1, Len(fa.values)) = fa.values
                      /\ SubSeq(row.values, Len(fa.values) + 1, Len(row.values)) = fb.values

\* One grid cell, half of it inside the border: one row, of half the area.
C9_Witness ==
    /\ IsFrame(intersection) /\ how = "intersection"
    /\ Len(grid.feats) = 1
    /\ Len(intersection.feats) = 1
    /\ 2 * Area(intersection.feats[1].geometry) = Area(grid.feats[1].geometry)

\* ---------------------------------------------------------------- C10
\* C10: the result of an intersection or a union carries every attribute
\* column of both inputs, a colliding name under a suffix, and no two columns
\* of the result have the same name.
C10_ColumnsOfBoth ==
    (IsFrame(intersection) /\ how \in {"intersection", "union"}) =>
        LET cols == intersection.columns
            a == grid.columns
            b == hel.columns
        IN  /\ Len(cols) = Len(a) + Len(b)
            /\ \A i \in DOMAIN a : cols[i] \in {a[i], a[i] \o "_1"}
            /\ \A k \in DOMAIN b : cols[Len(a) + k] \in {b[k], b[k] \o "_2"}
            /\ \A i \in DOMAIN intersection.feats :
                  Len(intersection.feats[i].values) = Len(cols)
            /\ Cardinality(Range(cols)) = Len(cols)

\* ---------------------------------------------------------------- C11
\* The position in df of the first row whose key is k.
FirstPos(df, by, k) == Min({i \in DOMAIN df.feats : KeyOf(df, by, df.feats[i]) = k})

\* C11, as amended: the rows of the aggregation come in ascending order of
\* their key values, whatever the order in which the keys first occur in
\* the layer that is aggregated.
C11_SortedByKey ==
    IsFrame(dissolved) =>
        \A n, m \in DOMAIN dissolved.feats :
            n < m => dissolved.feats[n].id < dissolved.feats[m].id

\* Two groups, and the key that occurs first in the layer is the greater one.
C11_Witness ==
    /\ IsFrame(dissolved)
    /\ Len(dissolved.feats) = 2
    /\ FirstPos(intersection, "car_r_t", dissolved.feats[2].id)
          < FirstPos(intersection, "car_r_t", dissolved.feats[1].id)

\* C11 as stated: the rows of the aggregation come in the order in which
\* their keys first occur in the layer.
C11_Original ==
    IsFrame(dissolved) =>
        \A n, m \in DOMAIN dissolved.feats :
            n < m => FirstPos(intersection, "car_r_t", dissolved.feats[n].id)
                        < FirstPos(intersection, "car_r_t", dissolved.feats[m].id)

\* ---------------------------------------------------------------- C12
\* C12: the aggregation can be aggregated again by the same key, which is now
\* its index, and the result has the same rows: as many, with the same keys
\* and the same geometries.
C12_DissolveIdempotent ==
    IsFrame(dissolved) =>
        /\ CanGroupBy(dissolved, "car_r_t")
        /\ LET again == dissolve(dissolved, "car_r_t")
           IN  /\ Len(again.feats) = Len(dissolved.feats)
               /\ \A i \in DOMAIN dissolved.feats :
                     /\ again.feats[i].id = dissolved.feats[i].id
                     /\ again.feats[i].geometry = dissolved.feats[i].geometry
               /\ again.index = dissolved.index

\* The aggregation merged two cells that do not touch into one multi-polygon.
C12_Witness ==
    /\ IsFrame(dissolved)
    /\ \E i \in DOMAIN dissolved.feats :
          dissolved.feats[i].geometry.type = "MultiPolygon"

\* ---------------------------------------------------------------- C13
VertexCount(g) == Len(g.coords)

\* C13: for every line of the layer as read and tolerances t1 < t2, simplify
\* with t1 keeps at least as many vertices as simplify with t2, and neither
\* keeps more vertices than the line has; so the geometry the notebook's call
\* produced has at most the vertices of any smaller tolerance and at least
\* those of any greater one.
C13_SimplifyMonotone ==
    IsFrame(amazon) =>
        \A i \in DOMAIN files.fp.feats :
            LET g == files.fp.feats[i].geometry
            IN  /\ \A t1, t2 \in Tolerances :
                      t1 < t2 => VertexCount(simplify(g, t1)) >= VertexCount(simplify(g, t2))
                /\ \A t \in Tolerances : VertexCount(simplify(g, t)) <= VertexCount(g)
                /\ tolerance # None =>
                      /\ VertexCount(amazon.feats[i].geometry) <= VertexCount(g)
                      /\ \A t \in Tolerances :
                            /\ t < tolerance => VertexCount(simplify(g, t))
                                                   >= VertexCount(amazon.feats[i].geometry)
                            /\ t > tolerance => VertexCount(simplify(g, t))
                                                   <= VertexCount(amazon.feats[i].geometry)

\* A line of four vertices was simplified to three, and a greater tolerance
\* leaves two.
C13_Witness ==
    /\ IsFrame(amazon) /\ tolerance # None /\ tolerance < MaxTolerance
    /\ VertexCount(files.fp.feats[1].geometry) = 4
    /\ VertexCount(amazon.feats[1].geometry) = 3
    /\ VertexCount(simplify(files.fp.feats[1].geometry, tolerance + 1)) = 2

\* ---------------------------------------------------------------- C14
\* The CRS a layer can be reprojected to.
TargetCRS == {from_epsg(EPSG3035), from_epsg(EPSG3067), from_epsg(EPSG4326)}

\* Layer r is layer c within the tolerance: the same CRS, index, columns and
\* rows, every geometry with the same parts and vertices, and every
\* coordinate within RoundOff.
Approx(r, c) ==
    /\ r.crs = c.crs
    /\ r.index = c.index /\ r.columns = c.columns
    /\ Len(r.feats) = Len(c.feats)
    /\ \A i \in DOMAIN c.feats :
          LET g == c.feats[i].geometry
              h == r.feats[i].geometry
          IN  /\ r.feats[i].id = c.feats[i].id
              /\ r.feats[i].values = c.feats[i].values
              /\ h.crs = g.crs
              /\ Len(h.parts) = Len(g.parts)
              /\ \A p \in DOMAIN g.parts :
                    /\ Len(h.parts[p]) = Len(g.parts[p])
                    /\ \A v \in DOMAIN g.parts[p] :
                          /\ h.parts[p][v] - g.parts[p][v] <= RoundOff
                          /\ g.parts[p][v] - h.parts[p][v] <= RoundOff

\* Reprojected to any CRS and from there back to its own, layer c is c again
\* within the tolerance.
RoundTrips(c) == \A B \in TargetCRS : Approx(to_crs(to_crs(c, B), c.crs), c)

CRSAtHand == {heap[i].crs : i \in DOMAIN heap} \cup Range(crs_object)

Covered(df) == UNION {Cells(df.feats[i].geometry.parts) : i \in DOMAIN df.feats}

\* The sum of the areas of the geometries of a layer.
TotalArea(df) == SumSeq([i \in DOMAIN df.feats |-> Area(df.feats[i].geometry)])

\* No two geometries of the layer overlap.
NoOverlap(df) ==
    \A i, j \in DOMAIN df.feats :
        i # j => Cells(df.feats[i].geometry.parts) \cap Cells(df.feats[j].geometry.parts) = {}

\* C17: the geometries of overlay(grid, hel, how='union') cover what the two
\* layers cover, and nothing else: the area covered is the area of the one
\* plus the area of the other minus the area of their overlap.  When no two
\* cells of the grid overlap, no two rows of the result do, so the areas of
\* the rows add up to that area: nothing is counted twice.
C17_UnionAreaComplete ==
    (IsFrame(intersection) /\ how = "union") =>
        /\ Covered(intersection) = Covered(grid) \cup Covered(hel)
        /\ Cardinality(Covered(intersection))
              = Cardinality(Covered(grid)) + Cardinality(Covered(hel))
                   - Cardinality(Covered(grid) \cap Covered(hel))
        /\ NoOverlap(grid) =>
              /\ NoOverlap(intersection)
              /\ TotalArea(intersection)
                    = TotalArea(grid) + TotalArea(hel)
                         - Cardinality(Covered(grid) \cap Covered(hel))

\* The two layers overlap in part: the union has the overlap, what is left of
\* the grid, and what is left of the border.
C17_Witness ==
    /\ IsFrame(intersection) /\ how = "union"
    /\ Covered(grid) \cap Covered(hel) # {}
    /\ Covered(grid) \ Covered(hel) # {}
    /\ Covered(hel) \ Covered(grid) # {}
    /\ Len(grid.feats) = 2 /\ NoOverlap(grid)

\* ---------------------------------------------------------------- C18
\* s is a subsequence of t: the elements of s occur in t in the same order.
RECURSIVE IsSubseq(_, _)
IsSubseq(s, t) ==
    IF s = <<>> THEN TRUE
    ELSE IF t = <<>> THEN FALSE
    ELSE IF Head(s) = Head(t) THEN IsSubseq(Tail(s), Tail(t))
    ELSE IsSubseq(s, Tail(t))

\* The point p is within the tolerance of the line r (of one of its segments).
Within(p, r, tol) ==
    \E n \in 1 .. (Len(r.coords) - 1) :
        SegDist2(p, r.coords[n], r.coords[n + 1])
            <= Sq(tol) * Dist2(r.coords[n], r.coords[n + 1])

\* Line r is a simplification of line g within the tolerance: its vertices
\* are vertices of g in their order, from the first to the last, and every
\* vertex of g is within the tolerance of r, in the units of the coordinates.
SimplifiedWithin(r, g, tol) ==
    /\ IsSubseq(r.coords, g.coords)
    /\ r.coords[1] = g.coords[1]
    /\ r.coords[Len(r.coords)] = g.coords[Len(g.coords)]
    /\ \A k \in DOMAIN g.coords : Within(g.coords[k], r, tol)

\* C18: the line simplify returns keeps only vertices of the line it is
\* given, in their order, and deviates from it by no more than the tolerance:
\* for the geometry the notebook's call produced, and for every tolerance.
C18_SimplifyWithinTolerance ==
    IsFrame(amazon) =>
        \A i \in DOMAIN files.fp.feats :
            LET g == files.fp.feats[i].geometry
            IN  /\ \A t \in Tolerances : SimplifiedWithin(simplify(g, t), g, t)
                /\ tolerance # None => SimplifiedWithin(amazon.feats[i].geometry, g, tolerance)

\* The call dropped a vertex that is off the line, but within the tolerance.
C18_Witness ==
    /\ IsFrame(amazon) /\ tolerance = 1
    /\ VertexCount(amazon.feats[1].geometry) < VertexCount(files.fp.feats[1].geometry)
    /\ \E k \in DOMAIN files.fp.feats[1].geometry.coords :
          ~Within(files.fp.feats[1].geometry.coords[k], amazon.feats[1].geometry, 0)

\* ---------------------------------------------------------------- C19
\* The stages of each notebook, in their order.
Stages ==
    { <<"read", "check", "overlay", "save", "dissolve", "select", "done">>,
      <<"p_read", "p_reproject", "p_save", "p_formats", "p_init_crs", "p_to_wkt",
        "p_from_wkt", "p_note", "p_redefine", "done">>,
      <<"a_read", "a_simplify", "done">>,
      <<"h_read", "h_select", "h_excel", "h_dropna", "h_rename", "h_number",
        "h_codes", "h_merge", "h_aland", "h_dissolve", "h_reset", "h_write",
        "h_reproject", "done">> }

Follows(p, q) ==
    \E seq \in Stages : \E n \in 1 .. (Len(seq) - 1) : seq[n] = p /\ seq[n + 1] = q

\* A cell is left to run: no cell has raised, and the last has not run.
Running == pc \notin {"done", "failed"}

\* The kernel leaves the cell it is at: the cell has returned or raised.
CellEnds ==
    /\ Running
    /\ pc' \in UNION {Range(seq) : seq \in Stages} \cup {"failed"}
    /\ pc' # pc

\* "Run All": the notebook is run from top to bottom, and a run does not stop
\* while a cell is left to run.
FairSpec == Spec /\ WF_pc(CellEnds)

\* A step of the run goes to the next stage of the notebook, or fails.
StageOrder == pc' = pc \/ pc' = "failed" \/ Follows(pc, pc')

\* The result of the run has been written.
Saved ==
    \/ "outfp" \in DOMAIN files /\ IsFrame(files.outfp)
    \/ "fp1" \in DOMAIN files /\ IsFrame(files.fp1)

\* What a stage has before it is the whole output of the stages before it,
\* and nothing of the stages after it.
Staged ==
    /\ pc \in {"read", "p_read", "a_read"} =>
          /\ grid = Undefined /\ hel = Undefined /\ heap = <<>> /\ amazon = Undefined
          /\ ~Saved
    /\ pc \in {"check", "overlay"} =>
          /\ grid = files.grid_fp /\ hel = files.border_fp
          /\ intersection = Undefined /\ ~Saved /\ dissolved = Undefined
    /\ IsFrame(intersection) =>
          /\ intersection = overlay(files.grid_fp, files.border_fp, how)
          /\ pc = "save" => ~Saved /\ dissolved = Undefined
          /\ pc # "save" => Saved /\ files.outfp = intersection
    /\ pc = "dissolve" => dissolved = Undefined
    /\ IsFrame(dissolved) =>
          /\ Saved
          /\ dissolved = dissolve(files.outfp, "car_r_t")
          /\ pc = "select" => sel_15min = Undefined
    /\ pc = "p_reproject" => heap = <<files.fp>> /\ ~Saved
    /\ pc = "p_save" =>
          /\ ~Saved
          /\ heap[data] = to_crs(files.fp, from_epsg(EPSG3035))
    /\ pc \in {"p_formats", "p_init_crs", "p_to_wkt", "p_from_wkt", "p_note", "p_redefine"} =>
          /\ Saved
          /\ files.outfp = to_crs(files.fp, from_epsg(EPSG3035))

\* The run starts with layers that have the same CRS.
ValidStart ==
    \/ pc = "read" /\ files.grid_fp.crs = files.border_fp.crs
    \/ pc = "p_read"
    \/ pc = "h_read"

\* C19: the cells run one after the other in the order of the notebook; each
\* stage starts from the complete output of the stages before it, and
\* nothing of a later stage exists before its turn; and a run that starts
\* with layers of the same CRS eventually saves its result.
C19_StrictlyStaged ==
    /\ []Staged
    /\ [][StageOrder]_vars
    /\ ValidStart ~> Saved

\* The result of the overlay has been saved, whole, and the aggregation has
\* not started.
C19_Witness ==
    /\ pc = "dissolve" /\ Saved
    /\ files.outfp = intersection
    /\ Len(files.outfp.feats) > 1

\* ---------------------------------------------------------------- C20
\* The layer and every geometry of it are in the CRS c.
AllInCRS(df, c) ==
    /\ df.crs = c
    /\ \A i \in DOMAIN df.feats : df.feats[i].geometry.crs = c

\* C20: the result of the overlay is in the CRS the two layers share, the
\* result of dissolve in the CRS of the layer it aggregates, and the
\* simplified geometries in the CRS of the geometries they simplify; only
\* the re-projected layer is in another CRS than the layer it was made from.
C20_CRSPreserved ==
    /\ IsFrame(intersection) =>
          /\ grid.crs = hel.crs
          /\ AllInCRS(intersection, grid.crs)
    /\ IsFrame(dissolved) => AllInCRS(dissolved, intersection.crs)
    /\ (IsFrame(amazon) /\ tolerance # None) =>
          /\ AllInCRS(amazon, files.fp.crs)
          /\ \A i \in DOMAIN files.fp.feats :
                \A t \in Tolerances :
                   simplify(files.fp.feats[i].geometry, t).crs
                      = files.fp.feats[i].geometry.crs
    /\ pc = "p_save" =>
          /\ AllInCRS(heap[data], from_epsg(EPSG3035))
          /\ AllInCRS(heap[data_wgs84], files.fp.crs)
    /\ IsFrame(geodata) => AllInCRS(geodata, files.url.crs)
    /\ IsFrame(districts) =>
          /\ AllInCRS(districts, geodata.crs)
          /\ IsFrame(files.fp1) => AllInCRS(files.fp1, districts.crs)
          /\ IsFrame(files.fp2) =>
                /\ AllInCRS(files.fp2, from_epsg(EPSG4326))
                /\ files.fp2.crs # districts.crs

\* The overlay and the aggregation have produced layers in the CRS of the
\* inputs, the aggregation having merged features.
C20_Witness ==
    /\ pc = "select"
    /\ Len(intersection.feats) > 1
    /\ Len(dissolved.feats) < Len(intersection.feats)
    /\ dissolved.crs = files.grid_fp.crs
    /\ dissolved.crs = files.border_fp.crs

\* ---------------------------------------------------------------- C23
\* The confidence thresholds (per cent) a caller passes: every tenth, and the
\* two thresholds of the notebook.
Confidences == {10 * k : k \in 0 .. 10} \cup {LowConfidence, DefaultConfidence}

\* C23: a CRS that resolves to an EPSG code at a confidence threshold
\* resolves to the same code at every lower threshold, and a CRS that does
\* not resolve at a threshold does not resolve at any higher one; so the two
\* calls of the notebook's note never give two different codes.
C23_ThresholdMonotone ==
    /\ \A crs \in CRSAtHand :
          LET code == [t \in Confidences |-> to_epsg(crs, t)]
          IN  \A t1, t2 \in Confidences :
                 t1 <= t2 =>
                    /\ code[t2] # None => code[t1] = code[t2]
                    /\ code[t1] = None => code[t2] = None
    /\ note_epsg # <<>> =>
          /\ note_epsg[1] # None => note_epsg[2] = note_epsg[1]
          /\ note_epsg[2] = None => note_epsg[1] = None
    /\ (note_epsg # <<>> /\ crs_epsg # <<>>) => crs_epsg[1] = note_epsg[2]

\* The case of the note, for a CRS with two candidates: no code at the
\* default threshold, and the code of the best candidate at 25.
C23_Witness ==
    /\ note_epsg = <<None, EPSG4326>>
    /\ Len(heap[data_wgs84].crs.matches) = 2
    /\ to_epsg(heap[data_wgs84].crs, 2 * LowConfidence) = EPSG4326

\* ---------------------------------------------------------------- C22
\* The floating point numbers whose integer part is a code 0..MaxCode.
FloatCodes == 0 .. (Float(MaxCode) + 9)

\* The codes of the table, as the sheet has them and as the table has them.
SheetCode(label) == at(dropna(files.xls), label, "kunta-\nkoodi")

\* C22: the conversion of the codes maps a floating point number whose
\* integer part has at most three digits to that integer part, written with
\* leading zeros in exactly three characters; two numbers with different
\* integer parts give different strings; and the padding leaves a converted
\* code as it is.  The codes of the table are converted so, and the example
\* of the notebook ("0" + str(int(number)) for 20.0) gives what the conversion
\* of all rows gives.
C22_CodesNormalised ==
    /\ pc = "h_merge" =>
          /\ \A x \in FloatCodes :
                NumDigits(astype_int(x)) <= 3 =>
                   /\ StrLen(NormaliseCode(x)) = 3
                   /\ ParseInt(NormaliseCode(x)) = astype_int(x)
                   /\ AddZeros2(AddZeros1(NormaliseCode(x))) = NormaliseCode(x)
          /\ \A m, n \in {KuntaCode(i) : i \in 1 .. MaxMunicipalities} \cup {0, 9, 10, 99, MaxCode} :
                m # n => NormaliseCode(Float(m)) # NormaliseCode(Float(n))
    /\ (pc \in {"h_merge", "h_aland", "h_dissolve", "h_reset", "h_write", "h_reproject"}
           \/ (pc = "done" /\ IsFrame(geodata))) =>
          /\ \A i \in DOMAIN hdata.rows :
                /\ hdata.rows[i].values[1] = NormaliseCode(SheetCode(hdata.rows[i].id))
                /\ StrLen(hdata.rows[i].values[1]) = 3
                /\ ParseInt(hdata.rows[i].values[1])
                      = astype_int(SheetCode(hdata.rows[i].id))
          /\ \A i, j \in DOMAIN hdata.rows :
                i # j => hdata.rows[i].values[1] # hdata.rows[j].values[1]
          /\ number[1] = Float(KuntaCode(1)) =>
                Concat(Zero, astype_str(astype_int(number[1]))) = NormaliseCode(number[1])

\* The example of the notebook, 20.0, has become "020", and the code 5.0 of
\* the next row "005".
C22_Witness ==
    /\ pc = "h_merge"
    /\ number = <<Float(KuntaCode(1))>>
    /\ Len(hdata.rows) > 1
    /\ hdata.rows[1].values[1] = Concat(Zero, astype_str(KuntaCode(1)))
    /\ hdata.rows[2].values[1] = Concat(Concat(Zero, Zero), astype_str(KuntaCode(2)))

\* ---------------------------------------------------------------- C21
\* The value of a column in row i of a layer.
Value(df, i, column) == df.feats[i].values[IndexOf(df.columns, column)]

\* The municipalities (by name) the sheet lists.
Listed == {r.values[2] : r \in Range(dropna(files.xls).rows)}

\* The health district of row k of the aggregated layer: its index value,
\* and its first column once the index is reset.
DistrictOf(k) ==
    IF districts.index = "healthCareDistrict" THEN districts.feats[k].id
    ELSE districts.feats[k].values[1]

\* The rows of the aggregated layer that hold municipality i: those of its
\* health district, and those whose geometry covers its polygon.
RowsOf(i) == {k \in DOMAIN districts.feats :
                 DistrictOf(k) = Value(geodata, i, "healthCareDistrict")}
Covering(i) == {k \in DOMAIN districts.feats :
                   Cells(geodata.feats[i].geometry.parts)
                      \subseteq Cells(districts.feats[k].geometry.parts)}

\* C21: the merge keeps every municipality polygon, in order; after it
\* exactly the municipalities the sheet does not list have no health
\* district; after the update these have "Ahvenanmaa" and no municipality
\* lacks a district; and the dissolve puts every municipality in exactly one
\* district, the sizes of the groups adding up to the number of
\* municipalities.
C21_EveryMunicipalityInOneDistrict ==
    /\ (IsFrame(geodata) /\ pc \notin {"h_select", "h_excel", "h_dropna", "h_rename",
                                       "h_number", "h_codes", "h_merge", "failed"}) =>
          /\ Len(geodata.feats) = Len(files.url.feats)
          /\ \A i \in DOMAIN geodata.feats :
                /\ geodata.feats[i].geometry = files.url.feats[i].geometry
                /\ Value(geodata, i, "name") = Value(files.url, i, "name")
    /\ pc = "h_aland" =>
          /\ isnull(geodata, "healthCareDistrict")
                = {i \in DOMAIN geodata.feats : Value(geodata, i, "name") \notin Listed}
          /\ isnull(geodata, "healthCareDistrict")
                = {i \in DOMAIN geodata.feats :
                      \A r \in Range(hdata.rows) : r.values[1] # Value(geodata, i, "code")}
    /\ (IsFrame(geodata) /\ pc \in {"h_dissolve", "h_reset", "h_write", "h_reproject", "done"}) =>
          /\ isnull(geodata, "healthCareDistrict") = {}
          /\ \A i \in DOMAIN geodata.feats :
                (Value(geodata, i, "healthCareDistrict") = Ahvenanmaa)
                   <=> (Value(geodata, i, "name") \notin Listed)
          /\ LET counts == value_counts(geodata, "healthCareDistrict")
             IN SumSeq([k \in 1 .. Cardinality(DOMAIN counts) |->
                           counts[SortAsc(DOMAIN counts)[k]]]) = Len(geodata.feats)
    /\ IsFrame(districts) =>
          /\ Len(districts.feats)
                = Cardinality(DOMAIN value_counts(geodata, "healthCareDistrict"))
          /\ \A i \in DOMAIN geodata.feats :
                /\ Cardinality(RowsOf(i)) = 1
                /\ Covering(i) = RowsOf(i)

\* Municipalities the sheet does not list have been given "Ahvenanmaa", and
\* the aggregation has made fewer districts than there are municipalities.
C21_Witness ==
    /\ pc = "h_reset"
    /\ Len(geodata.feats) > 2
    /\ \E i \in DOMAIN geodata.feats : Value(geodata, i, "name") \notin Listed
    /\ Len(districts.feats) > 1
    /\ Len(districts.feats) < Len(geodata.feats)

====
